---- MODULE Spec2Model ----
(***************************************************************************)
(* LNPBP-2 lockscript commitments (src/bp/dbc/lockscript.rs).              *)
(*                                                                         *)
(* A caller builds a LockscriptContainer (script, pubkey, tag) and calls   *)
(* LockscriptCommitment::embed_commit(container, msg); the body of that    *)
(* function is modelled statement by statement, one action per statement,  *)
(* so that the order of its steps is visible.  verify() replays            *)
(* embed_commit and compares.                                              *)
(*                                                                         *)
(* Data representation                                                     *)
(*   point   secp256k1::PublicKey: a positive integer.  The points of Keys *)
(*           are the keys a caller owns, larger integers are tweaked keys. *)
(*   hash    PubkeyHash: an integer; hashes of serialized keys are         *)
(*           positive, the tests' dummy hashes ([i; 20]) are negative.     *)
(*   script  the Miniscript syntax tree of a LockScript, a record          *)
(*           [op, val, cmp, subs]: op is the node kind, val its parameter  *)
(*           (point, hash or timelock), cmp the `compressed` flag of a     *)
(*           key leaf, subs the sequence of children.                      *)
(***************************************************************************)
EXTENDS Integers, Sequences, FiniteSets, TLC

\* ---------------------------------------------------------------- bounds
NumMsgs == 2
MaxLeaves == 3

\* ------------------------------------------------------------ value sets
\* the points of the caller's keys (the tests' keys[0], keys[1])
Keys == {1, 2}
\* the tests use the one tag sha256("TEST_TAG")
Tags == {1}
\* message 0 is the message the keyset tweak protocol rejects
Msgs == 0..NumMsgs
Timelocks == {921}

\* Option::None of a hash
None == 0

\* ------------------------------------------------- keys and their hashes
\* bitcoin::PublicKey::serialize: <<prefix, x>>, prefix 2 for the compressed
\* form and 4 for the uncompressed form
Serialize(key, compressed) == IF compressed THEN <<2, key>> ELSE <<4, key>>

\* hash160 of a serialized key, injective over serializations
Hash160(bytes) == bytes[2] * 8 + bytes[1]

\* bitcoin::PublicKey { compressed: true, key }.pubkey_hash()
PubkeyHashUncompressed(key) == Hash160(Serialize(key, FALSE))
PubkeyHash(key) == Hash160(Serialize(key, TRUE))

\* a hash160 value that is the hash of no key (the tests' dummy_hashes)
DummyHashes == {0 - 1}

\* ------------------------------------------------------------ script tree
PkLeaf(key, compressed) ==
    [op |-> "pk", val |-> key, cmp |-> compressed, subs |-> <<>>]
PkhLeaf(hash) == [op |-> "pk_h", val |-> hash, cmp |-> FALSE, subs |-> <<>>]
OlderLeaf(n) == [op |-> "older", val |-> n, cmp |-> FALSE, subs |-> <<>>]
Fragment(op, l, r) == [op |-> op, val |-> 0, cmp |-> FALSE, subs |-> <<l, r>>]
\* a script the Miniscript parser rejects
Malformed == [op |-> "invalid", val |-> 0, cmp |-> FALSE, subs |-> <<>>]
\* no script at all (the Err side of a Result)
NoScript == [op |-> "none", val |-> 0, cmp |-> FALSE, subs |-> <<>>]

Combinators == {"and", "or"}

Leaves ==
    {PkLeaf(k, TRUE) : k \in Keys}
    \cup {PkhLeaf(h) : h \in {PubkeyHash(k) : k \in Keys} \cup DummyHashes}
    \cup {OlderLeaf(n) : n \in Timelocks}

RECURSIVE TreesOver(_, _, _)
\* the trees over the leaves ls with exactly n leaves and depth at most d
TreesOver(ls, n, d) ==
    IF n = 1 THEN ls
    ELSE IF d = 0 THEN {}
    ELSE UNION {{Fragment(op, l, r) :
                    op \in Combinators,
                    l \in TreesOver(ls, i, d - 1),
                    r \in TreesOver(ls, n - i, d - 1)} : i \in 1..(n - 1)}

\* the trees with exactly n leaves and depth at most d
TreesOf(n, d) == TreesOver(Leaves, n, d)

\* the scripts a caller submits: the trees of depth at most 2 with at most
\* MaxLeaves leaves, and a script that does not parse
Scripts == UNION {TreesOf(n, 2) : n \in 1..MaxLeaves} \cup {Malformed}

Containers == [script : Scripts, pubkey : Keys, tag : Tags]

\* scripts whose key leaves come in both encodings and whose hash leaves hold
\* hashes of both serializations (the `uncompressed` key of the tests)
EncLeaves ==
    {PkLeaf(k, c) : k \in Keys, c \in BOOLEAN}
    \cup {PkhLeaf(Hash160(Serialize(k, c))) : k \in Keys, c \in BOOLEAN}
    \cup {PkhLeaf(h) : h \in DummyHashes}

EncScripts == UNION {TreesOver(EncLeaves, n, 2) : n \in 1..3}

EncContainers == [script : EncScripts, pubkey : Keys, tag : Tags]

\* ------------------------------------------------------ script operations
RECURSIVE ExtractKeys(_)
\* first component of LockScript::extract_pubkey_hash_set
ExtractKeys(s) ==
    IF s.op = "pk" THEN {s.val}
    ELSE UNION {ExtractKeys(s.subs[i]) : i \in 1..Len(s.subs)}

RECURSIVE ExtractHashes(_)
\* second component of LockScript::extract_pubkey_hash_set
ExtractHashes(s) ==
    IF s.op = "pk_h" THEN {s.val}
    ELSE UNION {ExtractHashes(s.subs[i]) : i \in 1..Len(s.subs)}

\* keys.get(&container.pubkey) is Some
KeyPresentAny(ks, pubkey) == ks # {}
KeyPresent(ks, pubkey) == pubkey \in ks

\* keys.iter().map(|pk| PublicKey { key: pk, compressed: true }.pubkey_hash())
KeyHashes(ks) == {PubkeyHash(k) : k \in ks}

\* hashes.into_iter().find(|hash| !key_hashes.contains(hash)): the values the
\* call can return, one per iteration order of the HashSet
FindFirstOnly(hs, key_hashes) ==
    IF hs = {} THEN {None}
    ELSE {IF h \notin key_hashes THEN h ELSE None : h \in hs}
FindUnknown(hs, key_hashes) ==
    IF {h \in hs : h \notin key_hashes} = {} THEN {None}
    ELSE {h \in hs : h \notin key_hashes}

\* .ok_or(Error::LockscriptContainsUnknownHashes)? applied to the find result
HashCheckFails(f) == f = None

\* ------------------------------------------------------------ tweak
RECURSIVE KeysetCode(_)
KeysetCode(ks) ==
    IF ks = {} THEN 0
    ELSE LET k == CHOOSE x \in ks : TRUE
         IN  2 ^ k + KeysetCode(ks \ {k})

\* LNPBP2Commitment::embed_commit on the KeysetContainer fails
TweakFails(pubkey, keyset, tag, m) == m = 0

\* LNPBP2Commitment::embed_commit on the KeysetContainer: a point that is not
\* one of Keys, injective in (pubkey, keyset, tag, message)
Tweak(pubkey, keyset, tag, m) ==
    Cardinality(Keys) + 1
    + ((pubkey * 2 ^ (Cardinality(Keys) + 1) + KeysetCode(keyset)) * 2 + tag)
      * (NumMsgs + 1) + m

\* &KeysetContainer { pubkey: container.pubkey, keyset: keys,
\*                     tag: container.tag }
KeysetContainerTargetOnly(c, ks) ==
    [pubkey |-> c.pubkey, keyset |-> {c.pubkey}, tag |-> c.tag]
KeysetContainer(c, ks) ==
    [pubkey |-> c.pubkey, keyset |-> ks, tag |-> c.tag]

\* the failure returned by a collaborator: the script library in
\* extract_pubkey_hash_set or replace_pubkeys_and_hashes, or the tweak delegate
Failed(stage, e) == [stage |-> stage, err |-> e]
NoFailure == [stage |-> "none", err |-> "none"]

\* the errors of the script library and of the tweak delegate
LibraryFailures == {"StructuralError", "PolicyError"}

\* extract_pubkey_hash_set on a script that does not parse
ExtractFailure == Failed("extract", "StructuralError")

\* LNPBP2Commitment::embed_commit on a message it rejects
TweakFailure == Failed("tweak", "KeysetTweakError")

\* `?`: return Err(From::from(e)), the engine's error for a failure of a
\* collaborator, which carries that failure as its cause
FromFailure(f) ==
    [err |-> IF f.stage = "tweak" THEN "TweakError"
             ELSE "LockscriptParserError",
     script |-> NoScript,
     cause |-> f.err]

\* the arguments of one call of the tweak delegate
Requested(kc, m) == [sent |-> TRUE, keyset_container |-> kc, msg |-> m]
NoRequest ==
    [sent |-> FALSE,
     keyset_container |-> [pubkey |-> 0, keyset |-> {}, tag |-> 0],
     msg |-> 0]

\* ------------------------------------------------------------ rewrite
\* |pubkey| match pubkey == container.pubkey { true => tweaked, false => pubkey }
KeyRuleAll(pubkey, target, tweaked) == tweaked
KeyRuleKeep(pubkey, target, tweaked) == pubkey
KeyRule(pubkey, target, tweaked) ==
    IF pubkey = target THEN tweaked ELSE pubkey

\* |hash| match hash == original_hash { true => tweaked_hash, false => hash }
HashRuleAll(hash, original_hash, tweaked_hash) == tweaked_hash
HashRuleKeep(hash, original_hash, tweaked_hash) == hash
HashRule(hash, original_hash, tweaked_hash) ==
    IF hash = original_hash THEN tweaked_hash ELSE hash

RECURSIVE Replace(_, _, _)
\* LockScript::replace_pubkeys_and_hashes with the two closures of
\* embed_commit
Replace(s, target, tweaked) ==
    IF s.op = "pk"
    THEN [s EXCEPT !.val = KeyRule(s.val, target, tweaked)]
    ELSE IF s.op = "pk_h"
    THEN [s EXCEPT !.val = HashRule(s.val, PubkeyHash(target),
                                    PubkeyHash(tweaked))]
    ELSE [s EXCEPT !.subs = [i \in 1..Len(s.subs) |->
                                Replace(s.subs[i], target, tweaked)]]

RECURSIVE Found(_, _)
\* the value of the `found` counter after the rewrite
Found(s, target) ==
    IF s.op = "pk" THEN (IF s.val = target THEN 1 ELSE 0)
    ELSE IF s.op = "pk_h"
    THEN (IF s.val = PubkeyHash(target) THEN 1 ELSE 0)
    ELSE IF Len(s.subs) = 0 THEN 0
    ELSE Found(s.subs[1], target) + Found(s.subs[2], target)

\* ------------------------------------------------------------ results
Ok(s) == [err |-> "Ok", script |-> s, cause |-> "none"]
Err(e) == [err |-> e, script |-> NoScript, cause |-> "none"]
NoResult == [err |-> "none", script |-> NoScript, cause |-> "none"]

ValidationErrors ==
    {"LockscriptContainsNoKeys", "LockscriptKeyNotFound",
     "LockscriptContainsUnknownHashes"}

\* the outcome of embed_commit when find returns f
EmbedCommitWith(c, m, f) ==
    IF c.script.op = "invalid" THEN FromFailure(ExtractFailure)
    ELSE IF ~KeyPresent(ExtractKeys(c.script), c.pubkey)
    THEN Err("LockscriptKeyNotFound")
    ELSE IF HashCheckFails(f) THEN Err("LockscriptContainsUnknownHashes")
    ELSE IF TweakFails(c.pubkey, ExtractKeys(c.script), c.tag, m)
    THEN FromFailure(TweakFailure)
    ELSE Ok(Replace(c.script, c.pubkey,
                    Tweak(c.pubkey, ExtractKeys(c.script), c.tag, m)))

\* the outcomes of embed_commit(container, msg)
EmbedCommit(c, m) ==
    IF c.script.op = "invalid" THEN {FromFailure(ExtractFailure)}
    ELSE {EmbedCommitWith(c, m, f) :
            f \in FindUnknown(ExtractHashes(c.script),
                              KeyHashes(ExtractKeys(c.script)))}

\* EmbedCommitVerify::verify: replay embed_commit and compare
VerifyWith(commitment, r) ==
    IF r.err = "Ok" THEN (IF r.script = commitment THEN "true" ELSE "false")
    ELSE r.err

\* ------------------------------------------------------------ state
VARIABLES
    container,      \* the container of the current call
    msg,            \* the message of the current call
    pc,             \* position inside embed_commit, or "done"
    run,            \* number of embed_commit calls made on the container
    keys,           \* local `keys`
    hashes,         \* local `hashes`
    unknown,        \* what `find` returned
    tweaked_pubkey, \* local `tweaked_pubkey`, 0 before the tweak
    found,          \* local `found`
    result,         \* the value embed_commit returned
    prev,           \* the value the previous call returned
    tweak_calls,    \* invocations of the tweak delegate in this call
    rewrite_calls,  \* invocations of the tree rewrite in this call
    request,        \* what the tweak delegate was called with in this call
    failure,        \* the failure a collaborator returned in this call
    failed,         \* the stages at which the caller's earlier calls failed
    vmsg,           \* the message given to verify
    candidate,      \* the commitment verify is called on
    verdict,        \* what verify returned
    wit,            \* a caller taking a container to its proof and back
    calls,          \* embed_commit / verify calls running concurrently
    cells,          \* the `found` cells of the concurrent calls
    node            \* a caller encoding and decoding contract nodes

vars == <<container, msg, pc, run, keys, hashes, unknown, tweaked_pubkey,
          found, result, prev, tweak_calls, rewrite_calls, request, failure,
          failed, vmsg, candidate, verdict, wit, calls, cells, node>>

lock_vars == <<container, msg, pc, run, keys, hashes, unknown, tweaked_pubkey,
               found, result, prev, tweak_calls, rewrite_calls, request,
               failure, failed, vmsg, candidate, verdict>>

locals == <<keys, hashes, unknown, tweaked_pubkey, found>>
others == <<wit, calls, cells, node>>
inputs == <<container, msg, run, prev, failed, others>>
ghosts == <<tweak_calls, rewrite_calls, request, failure>>
verify_vars == <<vmsg, candidate, verdict>>

\* ------------------------------------------------ proof and container
\* ScriptInfo: None, LockScript(script), Taproot(hash)
ScriptInfoKinds == {"None", "LockScript", "Taproot"}
ScriptInfoOf(kind, script) ==
    [kind |-> kind,
     script |-> IF kind = "LockScript" THEN script ELSE NoScript,
     taproot |-> IF kind = "Taproot" THEN 1 ELSE 0]

\* Host = Option<()>
Hosts == {"None", "Some"}
\* Supplement = sha256::Hash, the hashed tag
Supplements == {1, 2}

NoContainer == [script |-> NoScript, pubkey |-> 0, tag |-> 0]
NoProof == [script_info |-> ScriptInfoOf("None", NoScript), pubkey |-> 0]

\* LockscriptContainer::reconstruct
reconstructAnyKind(proof, supplement, host) ==
    [err |-> "Ok",
     container |-> [script |-> proof.script_info.script,
                    pubkey |-> proof.pubkey,
                    tag |-> supplement]]
reconstruct(proof, supplement, host) ==
    IF proof.script_info.kind = "LockScript"
    THEN [err |-> "Ok",
          container |-> [script |-> proof.script_info.script,
                         pubkey |-> proof.pubkey,
                         tag |-> supplement]]
    ELSE [err |-> "InvalidProofStructure", container |-> NoContainer]

\* LockscriptContainer::deconstruct
deconstructDefaultTag(c) ==
    <<[script_info |-> ScriptInfoOf("LockScript", c.script),
       pubkey |-> c.pubkey],
      1>>
deconstruct(c) ==
    <<[script_info |-> ScriptInfoOf("LockScript", c.script),
       pubkey |-> c.pubkey],
      c.tag>>

\* LockscriptContainer::to_proof
to_proof(c) ==
    [script_info |-> ScriptInfoOf("LockScript", c.script), pubkey |-> c.pubkey]

\* LockscriptContainer::into_proof
into_proof(c) ==
    [script_info |-> ScriptInfoOf("LockScript", c.script), pubkey |-> c.pubkey]

\* the containers of the caller that round-trips them
WitContainers ==
    [script : UNION {TreesOf(n, 2) : n \in 1..2} \cup {Malformed},
     pubkey : Keys,
     tag : Supplements]

NoRecon == [err |-> "none", container |-> NoContainer]

WitIdle ==
    [container |-> NoContainer, proof |-> NoProof, supplement |-> 0,
     tp |-> NoProof, ip |-> NoProof,
     given |-> NoProof, gsupp |-> 0, host |-> "None", recon |-> NoRecon]

\* the parts of the state a specification does not use
OthersIdle ==
    /\ wit = WitIdle
    /\ calls = <<>>
    /\ cells = <<>>
    /\ node = <<>>

LockIdle ==
    /\ container = NoContainer
    /\ msg = 0
    /\ pc = "idle"
    /\ run = 1
    /\ keys = {}
    /\ hashes = {}
    /\ unknown = None
    /\ tweaked_pubkey = 0
    /\ found = 0
    /\ result = NoResult
    /\ prev = NoResult
    /\ tweak_calls = 0
    /\ rewrite_calls = 0
    /\ request = NoRequest
    /\ failure = NoFailure
    /\ failed = {}
    /\ vmsg = 0
    /\ candidate = NoScript
    /\ verdict = "none"

Init ==
    /\ container \in Containers
    /\ msg \in Msgs
    /\ pc = "start"
    /\ run = 1
    /\ keys = {}
    /\ hashes = {}
    /\ unknown = None
    /\ tweaked_pubkey = 0
    /\ found = 0
    /\ result = NoResult
    /\ prev = NoResult
    /\ tweak_calls = 0
    /\ rewrite_calls = 0
    /\ request = NoRequest
    /\ failure = NoFailure
    /\ failed = {}
    /\ vmsg = 0
    /\ candidate = NoScript
    /\ verdict = "none"
    /\ OthersIdle

\* a caller whose scripts hold keys in both encodings
InitEnc ==
    /\ container \in EncContainers
    /\ msg \in Msgs
    /\ pc = "start"
    /\ run = 1
    /\ keys = {}
    /\ hashes = {}
    /\ unknown = None
    /\ tweaked_pubkey = 0
    /\ found = 0
    /\ result = NoResult
    /\ prev = NoResult
    /\ tweak_calls = 0
    /\ rewrite_calls = 0
    /\ request = NoRequest
    /\ failure = NoFailure
    /\ failed = {}
    /\ vmsg = 0
    /\ candidate = NoScript
    /\ verdict = "none"
    /\ OthersIdle

\* let (keys, hashes) = container.script.extract_pubkey_hash_set()?;
Extract ==
    /\ pc = "start"
    /\ IF container.script.op = "invalid"
       THEN /\ failure' = ExtractFailure
            /\ result' = FromFailure(failure')
            /\ pc' = "done"
            /\ UNCHANGED <<keys, hashes>>
       ELSE /\ keys' = ExtractKeys(container.script)
            /\ hashes' = ExtractHashes(container.script)
            /\ pc' = "extracted"
            /\ UNCHANGED <<result, failure>>
    /\ UNCHANGED <<inputs, unknown, tweaked_pubkey, found, tweak_calls,
                   rewrite_calls, request, verify_vars>>

\* keys.get(&container.pubkey).ok_or(Error::LockscriptKeyNotFound)?;
CheckKeyOtherError ==
    /\ pc = "extracted"
    /\ IF KeyPresent(keys, container.pubkey)
       THEN /\ pc' = "key_found"
            /\ UNCHANGED result
       ELSE /\ result' = Err("LockscriptContainsUnknownHashes")
            /\ pc' = "done"
    /\ UNCHANGED <<inputs, locals, ghosts, verify_vars>>
CheckKey ==
    /\ pc = "extracted"
    /\ IF KeyPresent(keys, container.pubkey)
       THEN /\ pc' = "key_found"
            /\ UNCHANGED result
       ELSE /\ result' = Err("LockscriptKeyNotFound")
            /\ pc' = "done"
    /\ UNCHANGED <<inputs, locals, ghosts, verify_vars>>

\* hashes.into_iter().find(..).ok_or(Error::LockscriptContainsUnknownHashes)?;
CheckHashesNoReturn ==
    /\ pc = "key_found"
    /\ \E f \in FindUnknown(hashes, KeyHashes(keys)) :
        /\ unknown' = f
        /\ pc' = "hashes_checked"
        /\ IF HashCheckFails(f)
           THEN result' = Err("LockscriptContainsUnknownHashes")
           ELSE UNCHANGED result
    /\ UNCHANGED <<inputs, keys, hashes, tweaked_pubkey, found, ghosts,
                   verify_vars>>
CheckHashes ==
    /\ pc = "key_found"
    /\ \E f \in FindUnknown(hashes, KeyHashes(keys)) :
        /\ unknown' = f
        /\ IF HashCheckFails(f)
           THEN /\ result' = Err("LockscriptContainsUnknownHashes")
                /\ pc' = "done"
           ELSE /\ pc' = "hashes_checked"
                /\ UNCHANGED result
    /\ UNCHANGED <<inputs, keys, hashes, tweaked_pubkey, found, ghosts,
                   verify_vars>>

\* let tweaked_pubkey = LNPBP2Commitment::embed_commit(&KeysetContainer {..}, msg)?;
TweakKeyNoReturn ==
    /\ pc = "hashes_checked"
    /\ tweak_calls' = tweak_calls + 1
    /\ LET kc == KeysetContainer(container, keys) IN
        /\ request' = Requested(kc, msg)
        /\ IF TweakFails(kc.pubkey, kc.keyset, kc.tag, msg)
           THEN /\ failure' = TweakFailure
                /\ result' = FromFailure(failure')
                /\ pc' = "tweaked"
                /\ UNCHANGED tweaked_pubkey
           ELSE /\ tweaked_pubkey' = Tweak(kc.pubkey, kc.keyset, kc.tag, msg)
                /\ pc' = "tweaked"
                /\ UNCHANGED <<result, failure>>
    /\ UNCHANGED <<inputs, keys, hashes, unknown, found, rewrite_calls,
                   verify_vars>>
TweakKey ==
    /\ pc = "hashes_checked"
    /\ tweak_calls' = tweak_calls + 1
    /\ LET kc == KeysetContainer(container, keys) IN
        /\ request' = Requested(kc, msg)
        /\ IF TweakFails(kc.pubkey, kc.keyset, kc.tag, msg)
           THEN /\ failure' = TweakFailure
                /\ result' = FromFailure(failure')
                /\ pc' = "done"
                /\ UNCHANGED tweaked_pubkey
           ELSE /\ tweaked_pubkey' = Tweak(kc.pubkey, kc.keyset, kc.tag, msg)
                /\ pc' = "tweaked"
                /\ UNCHANGED <<result, failure>>
    /\ UNCHANGED <<inputs, keys, hashes, unknown, found, rewrite_calls,
                   verify_vars>>

\* let lockscript = container.script.replace_pubkeys_and_hashes(..)?;
\* Ok(lockscript.into())
Rewrite ==
    /\ pc = "tweaked"
    /\ rewrite_calls' = rewrite_calls + 1
    /\ found' = Found(container.script, container.pubkey)
    /\ result' = Ok(Replace(container.script, container.pubkey, tweaked_pubkey))
    /\ pc' = "done"
    /\ UNCHANGED <<inputs, keys, hashes, unknown, tweaked_pubkey, tweak_calls,
                   request, failure, verify_vars>>

\* replace_pubkeys_and_hashes(..)? when the script library reports a
\* failure: the closures have counted the matching leaves it visited before
RewriteFail ==
    /\ pc = "tweaked"
    /\ rewrite_calls' = rewrite_calls + 1
    /\ \E e \in LibraryFailures,
          n \in 0..Found(container.script, container.pubkey) :
        /\ failure' = Failed("rewrite", e)
        /\ found' = n
    /\ result' = FromFailure(failure')
    /\ pc' = "done"
    /\ UNCHANGED <<inputs, keys, hashes, unknown, tweaked_pubkey, tweak_calls,
                   request, verify_vars>>

\* the caller calls embed_commit again on the same container and message
Recommit ==
    /\ pc = "done"
    /\ verdict = "none"
    /\ run = 1
    /\ run' = run + 1
    /\ prev' = result
    /\ result' = NoResult
    /\ pc' = "start"
    /\ keys' = {}
    /\ hashes' = {}
    /\ unknown' = None
    /\ tweaked_pubkey' = 0
    /\ found' = 0
    /\ tweak_calls' = 0
    /\ rewrite_calls' = 0
    /\ request' = NoRequest
    /\ failure' = NoFailure
    /\ failed' = failed \cup ({failure.stage} \ {"none"})
    /\ UNCHANGED <<container, msg, verify_vars, others>>

\* the commitments a verifier may be handed for a container: the original
\* script and the commitments of the container to the messages
Candidates(c) ==
    {c.script} \cup {r.script : r \in {x \in UNION {EmbedCommit(c, m) :
                                        m \in Msgs} : x.err = "Ok"}}

\* once embed_commit has returned a commitment, a verifier calls
\* x.verify(&container, &m) on a candidate commitment x
Verify ==
    /\ pc = "done"
    /\ result.err = "Ok"
    /\ verdict = "none"
    /\ \E m \in Msgs \ {0}, x \in Candidates(container) :
        \E r \in EmbedCommit(container, m) :
            /\ vmsg' = m
            /\ candidate' = x
            /\ verdict' = VerifyWith(x, r)
    /\ UNCHANGED <<inputs, pc, locals, result, ghosts>>

Next ==
    \/ Extract
    \/ CheckKey
    \/ CheckHashes
    \/ TweakKey
    \/ Rewrite
    \/ Recommit
    \/ Verify

Spec == Init /\ [][Next]_vars

SpecEnc == InitEnc /\ [][Next]_vars

\* the number of calls a caller of the failing library makes
OpaqueCalls == 3

\* the containers of the calls in which the script library may fail
OpaqueContainers ==
    [script : UNION {TreesOf(n, 2) : n \in 1..2} \cup {Malformed},
     pubkey : Keys,
     tag : Tags]

\* a caller whose call returned an error makes its next embed_commit call, on
\* any container and message
NextCall ==
    /\ pc = "done"
    /\ result.err # "Ok"
    /\ run < OpaqueCalls
    /\ run' = run + 1
    /\ container' \in OpaqueContainers
    /\ msg' \in Msgs
    /\ prev' = result
    /\ result' = NoResult
    /\ pc' = "start"
    /\ keys' = {}
    /\ hashes' = {}
    /\ unknown' = None
    /\ tweaked_pubkey' = 0
    /\ found' = 0
    /\ tweak_calls' = 0
    /\ rewrite_calls' = 0
    /\ request' = NoRequest
    /\ failure' = NoFailure
    /\ failed' = failed \cup ({failure.stage} \ {"none"})
    /\ UNCHANGED <<verify_vars, others>>

InitOpaque ==
    /\ Init
    /\ container \in OpaqueContainers

\* embed_commit with a script library whose rewrite may fail on any script
NextOpaque ==
    \/ Extract
    \/ CheckKey
    \/ CheckHashes
    \/ TweakKey
    \/ Rewrite
    \/ RewriteFail
    \/ NextCall
    \/ Verify

SpecOpaque == InitOpaque /\ [][NextOpaque]_vars

\* ------------------------------------------------- concurrent calls
CallIds == {1, 2}
CallKinds == {"embed_commit", "verify"}

\* the scripts given to the concurrent calls
ConcScripts ==
    {Malformed}
        \cup {PkLeaf(k, TRUE) : k \in Keys}
        \cup {Fragment("and", PkLeaf(k, TRUE), PkhLeaf(h)) :
                k \in Keys, h \in {PubkeyHash(x) : x \in Keys} \cup DummyHashes}
        \cup {Fragment("and", PkLeaf(k, TRUE),
                       Fragment("or", PkhLeaf(PubkeyHash(k)), PkhLeaf(h))) :
                k \in Keys, h \in DummyHashes}

ConcContainers == [script : ConcScripts, pubkey : Keys, tag : Tags]

\* the commitment a concurrent verify call is made on
ConcCandidate(c) ==
    IF \E r \in EmbedCommit(c, 1) : r.err = "Ok"
    THEN (CHOOSE r \in EmbedCommit(c, 1) : r.err = "Ok").script
    ELSE c.script

NewCall(kind, c, m) ==
    [kind |-> kind, container |-> c, msg |-> m,
     candidate |-> IF kind = "verify" THEN ConcCandidate(c) ELSE NoScript,
     pc |-> "start", keys |-> {}, hashes |-> {}, unknown |-> None,
     tweaked_pubkey |-> 0, result |-> NoResult, verdict |-> "none"]

\* a call that fails returns the error; verify passes it on with `?`
Fail(call, r) ==
    [call EXCEPT !.pc = "done", !.result = r,
                 !.verdict = IF call.kind = "verify" THEN r.err ELSE "none"]

\* `let found = RefCell::new(0)`: the cell a call allocates for itself
NoCell == 0 - 1
SharedFoundCell(i) == 1
FoundCell(i) == i

InitConc ==
    /\ LockIdle
    /\ wit = WitIdle
    /\ node = <<>>
    /\ calls \in [CallIds -> {NewCall(kind, c, m) :
                                kind \in CallKinds, c \in ConcContainers,
                                m \in Msgs}]
    /\ cells = [i \in CallIds |-> NoCell]

\* container.script.extract_pubkey_hash_set()?
CallExtract ==
    \E i \in CallIds :
        LET call == calls[i] IN
        /\ call.pc = "start"
        /\ calls' = [calls EXCEPT ![i] =
                IF call.container.script.op = "invalid"
                THEN Fail(call, FromFailure(ExtractFailure))
                ELSE [call EXCEPT
                        !.pc = "extracted",
                        !.keys = ExtractKeys(call.container.script),
                        !.hashes = ExtractHashes(call.container.script)]]
        /\ UNCHANGED <<lock_vars, wit, cells, node>>

\* keys.get(&container.pubkey).ok_or(Error::LockscriptKeyNotFound)?
CallCheckKey ==
    \E i \in CallIds :
        LET call == calls[i] IN
        /\ call.pc = "extracted"
        /\ calls' = [calls EXCEPT ![i] =
                IF KeyPresent(call.keys, call.container.pubkey)
                THEN [call EXCEPT !.pc = "key_ok"]
                ELSE Fail(call, Err("LockscriptKeyNotFound"))]
        /\ UNCHANGED <<lock_vars, wit, cells, node>>

\* hashes.into_iter().find(..).ok_or(LockscriptContainsUnknownHashes)?
CallCheckHashes ==
    \E i \in CallIds :
        LET call == calls[i] IN
        /\ call.pc = "key_ok"
        /\ \E f \in FindUnknown(call.hashes, KeyHashes(call.keys)) :
            calls' = [calls EXCEPT ![i] =
                IF HashCheckFails(f)
                THEN Fail(call, Err("LockscriptContainsUnknownHashes"))
                ELSE [call EXCEPT !.pc = "hashes_ok", !.unknown = f]]
        /\ UNCHANGED <<lock_vars, wit, cells, node>>

\* LNPBP2Commitment::embed_commit(&KeysetContainer{..}, msg)?
CallTweakKey ==
    \E i \in CallIds :
        LET call == calls[i]
            c == call.container
        IN
        /\ call.pc = "hashes_ok"
        /\ calls' = [calls EXCEPT ![i] =
                IF TweakFails(c.pubkey, call.keys, c.tag, call.msg)
                THEN Fail(call, FromFailure(TweakFailure))
                ELSE [call EXCEPT
                        !.pc = "tweaked",
                        !.tweaked_pubkey =
                            Tweak(c.pubkey, call.keys, c.tag, call.msg)]]
        /\ UNCHANGED <<lock_vars, wit, cells, node>>

\* let found = RefCell::new(0);
CallNewCell ==
    \E i \in CallIds :
        /\ calls[i].pc = "tweaked"
        /\ calls' = [calls EXCEPT ![i].pc = "rewriting"]
        /\ cells' = [cells EXCEPT ![FoundCell(i)] = 0]
        /\ UNCHANGED <<lock_vars, wit, node>>

\* container.script.replace_pubkeys_and_hashes(..)?; Ok(lockscript.into())
CallRewrite ==
    \E i \in CallIds :
        LET call == calls[i]
            c == call.container
        IN
        /\ call.pc = "rewriting"
        /\ calls' = [calls EXCEPT ![i] =
                [call EXCEPT
                    !.pc = IF call.kind = "verify" THEN "replayed" ELSE "done",
                    !.result =
                        Ok(Replace(c.script, c.pubkey, call.tweaked_pubkey))]]
        /\ cells' = [cells EXCEPT ![FoundCell(i)] =
                        cells[FoundCell(i)] + Found(c.script, c.pubkey)]
        /\ UNCHANGED <<lock_vars, wit, node>>

\* verify: compare the replayed commitment with self
CallCompare ==
    \E i \in CallIds :
        LET call == calls[i] IN
        /\ call.pc = "replayed"
        /\ calls' = [calls EXCEPT ![i] =
                [call EXCEPT
                    !.pc = "done",
                    !.verdict = VerifyWith(call.candidate, call.result)]]
        /\ UNCHANGED <<lock_vars, wit, cells, node>>

NextConc ==
    \/ CallExtract
    \/ CallCheckKey
    \/ CallCheckHashes
    \/ CallTweakKey
    \/ CallNewCell
    \/ CallRewrite
    \/ CallCompare

SpecConc == InitConc /\ [][NextConc]_vars

\* ------------------------------------------------------ contract nodes
\* the largest chain-parameter count a crafted Genesis stream declares
MaxChainParams == 2

\* 32-byte hashes (SchemaId, ContractId, genesis block hash), each one
\* fixed-width value of a stream
SchemaIds == {21, 22}
ContractIds == {31, 32}

\* bp::Chain: the full chain parameters; two chains may share a genesis
\* block hash and differ in the other parameters
Chains ==
    {[name |-> "Mainnet", magic |-> 217, genesis_hash |-> 111],
     [name |-> "Testnet3", magic |-> 11, genesis_hash |-> 67],
     [name |-> "Other", magic |-> 218, genesis_hash |-> 111]}

\* Metadata, OwnedRights, PublicRights, ParentOwnedRights,
\* ParentPublicRights, SimplicityScript: collections of bytes
MetadataValues == {<<>>, <<5>>}
OwnedRightsValues == {<<>>, <<6, 6>>}
PublicRightsValues == {<<>>, <<7>>}
ParentRightsValues == {<<>>, <<8>>}
SimplicityScripts == {<<>>, <<9>>}
NodeTypes == {0, 1}

Geneses ==
    [kind : {"Genesis"}, schema_id : SchemaIds, chain : Chains,
     metadata : MetadataValues, owned_rights : OwnedRightsValues,
     public_rights : PublicRightsValues, script : SimplicityScripts]

Extensions ==
    [kind : {"Extension"}, extension_type : NodeTypes,
     contract_id : ContractIds, metadata : MetadataValues,
     parent_public_rights : ParentRightsValues,
     owned_rights : {<<>>}, public_rights : PublicRightsValues,
     script : {<<>>}]

Transitions ==
    [kind : {"Transition"}, transition_type : NodeTypes,
     metadata : MetadataValues, parent_owned_rights : ParentRightsValues,
     owned_rights : OwnedRightsValues, public_rights : PublicRightsValues,
     script : {<<>>}]

\* strict encoding of the primitives
EncodeHash(h) == <<h>>
EncodeUsize(n) == <<n % 256, (n \div 256) % 256>>
EncodeBytes(bytes) == EncodeUsize(Len(bytes)) \o bytes

\* strict_encode(&self.chain): all the chain parameters
EncodeChain(chain) == <<chain.magic, chain.genesis_hash>>

\* Chain::as_genesis_hash
as_genesis_hash(chain) == chain.genesis_hash

\* impl CommitEncode for Genesis
GenesisCommitEncodeFullChain(g) ==
    EncodeHash(g.schema_id) \o EncodeChain(g.chain)
        \o EncodeBytes(g.metadata) \o EncodeBytes(g.owned_rights)
        \o EncodeBytes(g.public_rights) \o EncodeBytes(g.script)
GenesisCommitEncode(g) ==
    EncodeHash(g.schema_id) \o EncodeHash(as_genesis_hash(g.chain))
        \o EncodeBytes(g.metadata) \o EncodeBytes(g.owned_rights)
        \o EncodeBytes(g.public_rights) \o EncodeBytes(g.script)

\* impl StrictEncode for Genesis
GenesisStrictEncode(g) ==
    LET chain_params == EncodeChain(g.chain) IN
    EncodeHash(g.schema_id) \o EncodeUsize(1) \o EncodeBytes(chain_params)
        \o EncodeBytes(g.metadata) \o EncodeBytes(g.owned_rights)
        \o EncodeBytes(g.public_rights) \o EncodeBytes(g.script)

\* #[derive(StrictEncode)] struct Extension
ExtensionStrictEncode(x) ==
    EncodeUsize(x.extension_type) \o EncodeHash(x.contract_id)
        \o EncodeBytes(x.metadata) \o EncodeBytes(x.parent_public_rights)
        \o EncodeBytes(x.owned_rights) \o EncodeBytes(x.public_rights)
        \o EncodeBytes(x.script)

\* #[derive(StrictEncode)] struct Transition
TransitionStrictEncode(t) ==
    EncodeUsize(t.transition_type) \o EncodeBytes(t.metadata)
        \o EncodeBytes(t.parent_owned_rights) \o EncodeBytes(t.owned_rights)
        \o EncodeBytes(t.public_rights) \o EncodeBytes(t.script)

StrictEncode(n) ==
    IF n.kind = "Genesis" THEN GenesisStrictEncode(n)
    ELSE IF n.kind = "Extension" THEN ExtensionStrictEncode(n)
    ELSE TransitionStrictEncode(n)

\* Genesis has its own CommitEncode; Extension and Transition use
\* commit_strategy::UsingStrict
CommitEncode(n) ==
    IF n.kind = "Genesis" THEN GenesisCommitEncode(n) ELSE StrictEncode(n)

\* consensus_commit: the tagged hash of the commit encoding
consensus_commit(n) ==
    [type |-> "NodeId", inner |-> <<"rgb:node", CommitEncode(n)>>]

\* Node::node_id
node_id(n) == consensus_commit(n)

\* ContractId::from_inner(id.into_inner())
ContractIdFromInner(inner) == [type |-> "ContractId", inner |-> inner]

\* Genesis::contract_id
GenesisContractId(g) == ContractIdFromInner(node_id(g).inner)

\* Option<ContractId>
NoneId == [some |-> FALSE, id |-> ContractIdFromInner(<<>>)]
SomeId(id) == [some |-> TRUE, id |-> id]

\* Node::contract_id
contract_id_commits(n) ==
    IF n.kind = "Genesis"
    THEN SomeId(ContractIdFromInner(node_id(n).inner))
    ELSE IF n.kind = "Extension"
    THEN SomeId(ContractIdFromInner(<<n.contract_id>>))
    ELSE SomeId(ContractIdFromInner(node_id(n).inner))
contract_id(n) ==
    IF n.kind = "Genesis"
    THEN SomeId(ContractIdFromInner(node_id(n).inner))
    ELSE IF n.kind = "Extension"
    THEN SomeId(ContractIdFromInner(<<n.contract_id>>))
    ELSE NoneId

\* strict decoding of the primitives: the value read and the rest of the
\* stream, or an I/O error at the end of the stream
Read(val, rest) == [err |-> "Ok", val |-> val, rest |-> rest]
ReadErr(e) == [err |-> e, val |-> <<>>, rest |-> <<>>]
DecodeHash(d) ==
    IF Len(d) < 1 THEN ReadErr("Io")
    ELSE Read(d[1], SubSeq(d, 2, Len(d)))
DecodeUsize(d) ==
    IF Len(d) < 2 THEN ReadErr("Io")
    ELSE Read(d[1] + 256 * d[2], SubSeq(d, 3, Len(d)))
DecodeBytes(d) ==
    LET len == DecodeUsize(d) IN
    IF len.err # "Ok" THEN len
    ELSE IF Len(len.rest) < len.val THEN ReadErr("Io")
    ELSE Read(SubSeq(len.rest, 1, len.val),
              SubSeq(len.rest, len.val + 1, Len(len.rest)))

\* strict_decode(&chain_data)
DecodeChain(chain_data) ==
    IF \E c \in Chains : EncodeChain(c) = chain_data
    THEN Read(CHOOSE c \in Chains : EncodeChain(c) = chain_data, <<>>)
    ELSE ReadErr("DataIntegrityError")

RECURSIVE SkipChainParams(_, _)
\* for _ in 1..chain_params_no { Vec::<u8>::strict_decode(&mut d)? }
SkipNoChainParams(d, n) == Read(<<>>, d)
SkipChainParams(d, n) ==
    IF n <= 0 THEN Read(<<>>, d)
    ELSE LET skipped == DecodeBytes(d) IN
         IF skipped.err # "Ok" THEN skipped
         ELSE SkipChainParams(skipped.rest, n - 1)

NoGenesis == [kind |-> "none"]
Decoded(g) == [err |-> "Ok", genesis |-> g]
DecodeErr(e) == [err |-> e, genesis |-> NoGenesis]
NotDecoded == [err |-> "none", genesis |-> NoGenesis]

\* impl StrictDecode for Genesis
GenesisStrictDecode(d) ==
    LET schema_id == DecodeHash(d) IN
    IF schema_id.err # "Ok" THEN DecodeErr(schema_id.err) ELSE
    LET chain_params_no == DecodeUsize(schema_id.rest) IN
    IF chain_params_no.err # "Ok" THEN DecodeErr(chain_params_no.err) ELSE
    IF chain_params_no.val < 1 THEN DecodeErr("ValueOutOfRange") ELSE
    LET chain_data == DecodeBytes(chain_params_no.rest) IN
    IF chain_data.err # "Ok" THEN DecodeErr(chain_data.err) ELSE
    LET chain == DecodeChain(chain_data.val) IN
    IF chain.err # "Ok" THEN DecodeErr(chain.err) ELSE
    LET skipped == SkipChainParams(chain_data.rest, chain_params_no.val - 1) IN
    IF skipped.err # "Ok" THEN DecodeErr(skipped.err) ELSE
    LET metadata == DecodeBytes(skipped.rest) IN
    IF metadata.err # "Ok" THEN DecodeErr(metadata.err) ELSE
    LET assignments == DecodeBytes(metadata.rest) IN
    IF assignments.err # "Ok" THEN DecodeErr(assignments.err) ELSE
    LET valencies == DecodeBytes(assignments.rest) IN
    IF valencies.err # "Ok" THEN DecodeErr(valencies.err) ELSE
    LET script == DecodeBytes(valencies.rest) IN
    IF script.err # "Ok" THEN DecodeErr(script.err) ELSE
    Decoded([kind |-> "Genesis", schema_id |-> schema_id.val,
             chain |-> chain.val, metadata |-> metadata.val,
             owned_rights |-> assignments.val,
             public_rights |-> valencies.val, script |-> script.val])

\* a later version of the chain parameters, as one more byte string
NextChainParams == <<250>>

RECURSIVE Repeat(_, _)
Repeat(bytes, n) == IF n <= 0 THEN <<>> ELSE bytes \o Repeat(bytes, n - 1)

\* a Genesis stream that declares `count` chain-parameter byte strings and
\* carries `strings` of them, the first one in the current format
GenesisStream(g, count, strings) ==
    EncodeHash(g.schema_id) \o EncodeUsize(count)
        \o (IF strings >= 1 THEN EncodeBytes(EncodeChain(g.chain)) ELSE <<>>)
        \o Repeat(EncodeBytes(NextChainParams), strings - 1)
        \o EncodeBytes(g.metadata) \o EncodeBytes(g.owned_rights)
        \o EncodeBytes(g.public_rights) \o EncodeBytes(g.script)

NoBytes == <<0 - 1>>
NoId == [type |-> "none", inner |-> <<>>]
NotAsked == [some |-> FALSE, id |-> NoId]

\* an owned right is one assignment: revealed, or concealed to its
\* confidential form
IsRevealed(assignment) == assignment < 100
Conceal(assignment) == assignment + 100

\* the confidential seals a caller may ask to keep revealed
Seals == {Conceal(6)}

\* Assignments::conceal_except: the assignment after the call and the number
\* of assignments concealed by it
AssignmentConcealExcept(assignment, seals) ==
    IF IsRevealed(assignment) /\ Conceal(assignment) \notin seals
    THEN [val |-> Conceal(assignment), count |-> 1]
    ELSE [val |-> assignment, count |-> 0]

\* AutoConceal::conceal_except for Genesis, Extension and Transition: the
\* node after the call and the count returned
conceal_except(n, seals) ==
    LET each == [i \in 1..Len(n.owned_rights) |->
                    AssignmentConcealExcept(n.owned_rights[i], seals)]
    IN  [val |-> [n EXCEPT !.owned_rights =
                        [i \in 1..Len(n.owned_rights) |-> each[i].val]],
         count |-> Cardinality({i \in 1..Len(n.owned_rights) :
                                    each[i].count = 1})]

\* a node and what its holder has asked of it since it was last changed
NewNode(n) ==
    [val |-> n, node_id |-> NoId, contract_id |-> NotAsked,
     genesis_contract_id |-> NoId, commit |-> NoBytes, strict |-> NoBytes,
     stream |-> NoBytes, count |-> 0, strings |-> 0, decoded |-> NotDecoded,
     concealed |-> 0]

InitNodes ==
    /\ LockIdle
    /\ wit = WitIdle
    /\ calls = <<>>
    /\ cells = <<>>
    /\ node \in {NewNode(n) : n \in Geneses \cup Extensions \cup Transitions}

\* node.node_id()
NodeNodeId ==
    /\ node.node_id = NoId
    /\ node' = [node EXCEPT !.node_id = node_id(node.val)]
    /\ UNCHANGED <<lock_vars, wit, calls, cells>>

\* Node::contract_id(&node)
NodeContractId ==
    /\ node.contract_id = NotAsked
    /\ node' = [node EXCEPT !.contract_id = contract_id(node.val)]
    /\ UNCHANGED <<lock_vars, wit, calls, cells>>

\* Genesis::contract_id(&genesis)
GenesisContractIdCall ==
    /\ node.val.kind = "Genesis"
    /\ node.genesis_contract_id = NoId
    /\ node' = [node EXCEPT
                    !.genesis_contract_id = GenesisContractId(node.val)]
    /\ UNCHANGED <<lock_vars, wit, calls, cells>>

\* node.clone().commit_encode(&mut encoder)
NodeCommitEncode ==
    /\ node.commit = NoBytes
    /\ node' = [node EXCEPT !.commit = CommitEncode(node.val)]
    /\ UNCHANGED <<lock_vars, wit, calls, cells>>

\* strict_encode(&node)
NodeStrictEncode ==
    /\ node.strict = NoBytes
    /\ node' = [node EXCEPT !.strict = StrictEncode(node.val)]
    /\ UNCHANGED <<lock_vars, wit, calls, cells>>

\* Genesis::strict_decode(&stream[..]) on what the encoder wrote
GenesisDecodeEncoded ==
    /\ node.val.kind = "Genesis"
    /\ node.strict # NoBytes
    /\ node.decoded = NotDecoded
    /\ node' = [node EXCEPT !.stream = node.strict, !.count = 1,
                            !.strings = 1,
                            !.decoded = GenesisStrictDecode(node.strict)]
    /\ UNCHANGED <<lock_vars, wit, calls, cells>>

\* Genesis::strict_decode(&stream[..]) on a stream of another writer
GenesisDecodeStream ==
    /\ node.val.kind = "Genesis"
    /\ node.decoded = NotDecoded
    /\ \E count \in 0..MaxChainParams, strings \in 0..MaxChainParams :
        LET d == GenesisStream(node.val, count, strings) IN
        node' = [node EXCEPT !.stream = d, !.count = count,
                             !.strings = strings,
                             !.decoded = GenesisStrictDecode(d)]
    /\ UNCHANGED <<lock_vars, wit, calls, cells>>

\* *node.owned_rights_mut() = owned_rights; the ids and encodings taken
\* before are those of the node before the change
NodeOwnedRightsMut ==
    /\ \E v \in OwnedRightsValues :
        node' = NewNode([node.val EXCEPT !.owned_rights = v])
    /\ UNCHANGED <<lock_vars, wit, calls, cells>>

\* *node.public_rights_mut() = public_rights
NodePublicRightsMut ==
    /\ \E v \in PublicRightsValues :
        node' = NewNode([node.val EXCEPT !.public_rights = v])
    /\ UNCHANGED <<lock_vars, wit, calls, cells>>

\* node.conceal_except(&seals); conceal_all is the call with no seals
NodeConcealExcept ==
    /\ \E seals \in SUBSET Seals :
        LET r == conceal_except(node.val, seals) IN
        node' = [NewNode(r.val) EXCEPT !.concealed = r.count]
    /\ UNCHANGED <<lock_vars, wit, calls, cells>>

NextNodes ==
    \/ NodeOwnedRightsMut
    \/ NodePublicRightsMut
    \/ NodeConcealExcept
    \/ NodeNodeId
    \/ NodeContractId
    \/ GenesisContractIdCall
    \/ NodeCommitEncode
    \/ NodeStrictEncode
    \/ GenesisDecodeEncoded
    \/ GenesisDecodeStream

SpecNodes == InitNodes /\ [][NextNodes]_vars

\* ------------------------------------------- proof and container: actions
InitWitness ==
    /\ LockIdle
    /\ \E c \in WitContainers : wit = [WitIdle EXCEPT !.container = c]
    /\ calls = <<>>
    /\ cells = <<>>
    /\ node = <<>>

\* let (proof, supplement) = container.clone().deconstruct();
Deconstruct ==
    /\ wit.container # NoContainer
    /\ wit.proof = NoProof
    /\ wit' = [wit EXCEPT !.proof = deconstruct(wit.container)[1],
                          !.supplement = deconstruct(wit.container)[2]]
    /\ UNCHANGED <<lock_vars, calls, cells, node>>

\* let proof = container.to_proof();
ToProof ==
    /\ wit.container # NoContainer
    /\ wit.tp = NoProof
    /\ wit' = [wit EXCEPT !.tp = to_proof(wit.container)]
    /\ UNCHANGED <<lock_vars, calls, cells, node>>

\* let proof = container.clone().into_proof();
IntoProof ==
    /\ wit.container # NoContainer
    /\ wit.ip = NoProof
    /\ wit' = [wit EXCEPT !.ip = into_proof(wit.container)]
    /\ UNCHANGED <<lock_vars, calls, cells, node>>

\* LockscriptContainer::reconstruct(&proof, &supplement, &host) on the proof
\* of a deconstructed container, or on a proof with that public key and
\* another script_info variant
Reconstruct ==
    /\ wit.proof # NoProof
    /\ wit.recon = NoRecon
    /\ \E kind \in ScriptInfoKinds, s \in Supplements, h \in Hosts :
        LET p == [wit.proof EXCEPT
                    !.script_info =
                        ScriptInfoOf(kind, wit.proof.script_info.script)]
        IN  wit' = [wit EXCEPT !.given = p, !.gsupp = s, !.host = h,
                              !.recon = reconstruct(p, s, h)]
    /\ UNCHANGED <<lock_vars, calls, cells, node>>

NextWitness ==
    \/ Deconstruct
    \/ ToProof
    \/ IntoProof
    \/ Reconstruct

SpecWitness == InitWitness /\ [][NextWitness]_vars

TypeOK ==
    /\ container \in Containers
    /\ msg \in Msgs
    /\ pc \in {"start", "extracted", "key_found", "hashes_checked", "tweaked",
               "done"}
    /\ run \in 1..2
    /\ found \in 0..MaxLeaves
    /\ verdict \in {"none", "true", "false", "TweakError",
                    "LockscriptParserError"} \cup ValidationErrors

\* ------------------------------------------------------------ properties
Parsed == container.script.op # "invalid"
ScriptKeys == ExtractKeys(container.script)
ScriptHashes == ExtractHashes(container.script)
Returned == pc = "done"
Succeeded == pc = "done" /\ result.err = "Ok"

\* the three invariants of a valid container
ValidContainer ==
    /\ Parsed
    /\ ScriptKeys # {}
    /\ container.pubkey \in ScriptKeys
    /\ ScriptHashes \subseteq KeyHashes(ScriptKeys)

RECURSIVE LeafSeq(_)
\* the leaves of a tree, left to right
LeafSeq(s) ==
    IF Len(s.subs) = 0 THEN <<s>>
    ELSE LeafSeq(s.subs[1]) \o LeafSeq(s.subs[2])

RECURSIVE Shape(_)
\* a tree with the values of its key and hash leaves erased
Shape(s) ==
    IF s.op \in {"pk", "pk_h"} THEN [s EXCEPT !.val = 0]
    ELSE [s EXCEPT !.subs = [i \in 1..Len(s.subs) |-> Shape(s.subs[i])]]

\* a leaf that holds the target key or the hash of the target key
Matches(leaf, target) ==
    \/ leaf.op = "pk" /\ leaf.val = target
    \/ leaf.op = "pk_h" /\ leaf.val = PubkeyHash(target)

\* C1: a script with an empty key-leaf set makes embed_commit fail with
\* LockscriptContainsNoKeys, not with LockscriptKeyNotFound.
C1_NoKeysReported ==
    (Returned /\ Parsed /\ ScriptKeys = {})
        => result.err = "LockscriptContainsNoKeys"

\* C2: a script with a non-empty key-leaf set that does not contain the
\* target key makes embed_commit fail with LockscriptKeyNotFound.
C2_KeyNotFound ==
    (Returned /\ Parsed /\ ScriptKeys # {} /\ container.pubkey \notin ScriptKeys)
        => result.err = "LockscriptKeyNotFound"

C2_Witness ==
    /\ Returned
    /\ container.script.op \in Combinators
    /\ ScriptKeys # {}
    /\ container.pubkey \notin ScriptKeys
    /\ result.err = "LockscriptKeyNotFound"

\* C3: with the target key among the key leaves, a hash leaf that is the hash
\* of no key leaf makes embed_commit fail with
\* LockscriptContainsUnknownHashes.
C3_UnknownHashRejected ==
    (/\ Returned
     /\ Parsed
     /\ container.pubkey \in ScriptKeys
     /\ ~(ScriptHashes \subseteq KeyHashes(ScriptKeys)))
        => result.err = "LockscriptContainsUnknownHashes"

\* C4: embed_commit on a valid container, with a message the tweak delegate
\* accepts, returns a commitment and not an error.
C4_ValidContainerCommits ==
    (/\ Returned
     /\ ValidContainer
     /\ ~TweakFails(container.pubkey, ScriptKeys, container.tag, msg))
        => result.err = "Ok"

\* C5: soundness: for a valid container C and a message M, embed_commit(C, M)
\* is a commitment that verify accepts against C and M.
C5_Soundness ==
    (/\ Returned
     /\ ValidContainer
     /\ ~TweakFails(container.pubkey, ScriptKeys, container.tag, msg))
        => \A r \in EmbedCommit(container, msg) :
                r.err = "Ok" /\ VerifyWith(result.script, r) = "true"

\* C6: determinism: a second embed_commit call on the same container and
\* message returns what the first returned, whatever order the hash set is
\* iterated in; the inputs admit exactly one outcome.
C6_Determinism ==
    (run >= 2 /\ Returned)
        => /\ result = prev
           /\ EmbedCommit(container, msg) = {result}

C6_Witness ==
    /\ run >= 2
    /\ Succeeded
    /\ prev = result
    /\ Cardinality(FindUnknown(hashes, KeyHashes(keys))) >= 2

\* C7: tamper detection: for a valid container C and messages M1 # M2,
\* embed_commit(C, M1) is a commitment that verify rejects against C and M2.
C7_TamperDetection ==
    (/\ Returned
     /\ ValidContainer
     /\ ~TweakFails(container.pubkey, ScriptKeys, container.tag, msg))
        => \A m2 \in Msgs \ {0, msg} :
             \A r \in EmbedCommit(container, m2) :
                result.err = "Ok" /\ VerifyWith(result.script, r) = "false"

\* C8: when the target key or its hash occurs at two or more leaves, a
\* successful embed_commit replaces every occurrence: key leaves by the one
\* tweaked key, hash leaves by the hash of that key, and neither the target
\* key nor its hash remains in the commitment.
C8_AllOccurrencesReplaced ==
    (/\ Succeeded
     /\ Cardinality({i \in 1..Len(LeafSeq(container.script)) :
            Matches(LeafSeq(container.script)[i], container.pubkey)}) >= 2)
        => /\ Len(LeafSeq(result.script)) = Len(LeafSeq(container.script))
           /\ \A i \in 1..Len(LeafSeq(container.script)) :
                LET old == LeafSeq(container.script)[i]
                    new == LeafSeq(result.script)[i]
                IN  /\ (old.op = "pk" /\ old.val = container.pubkey)
                        => new = PkLeaf(tweaked_pubkey, old.cmp)
                    /\ (old.op = "pk_h"
                            /\ old.val = PubkeyHash(container.pubkey))
                        => new = PkhLeaf(PubkeyHash(tweaked_pubkey))
           /\ tweaked_pubkey =
                Tweak(container.pubkey, ScriptKeys, container.tag, msg)
           /\ container.pubkey \notin ExtractKeys(result.script)
           /\ PubkeyHash(container.pubkey) \notin ExtractHashes(result.script)

C8_Witness ==
    /\ Succeeded
    /\ \E i, j \in 1..Len(LeafSeq(container.script)) :
        /\ i # j
        /\ LeafSeq(container.script)[i] = PkLeaf(container.pubkey, TRUE)
        /\ LeafSeq(container.script)[j] = PkhLeaf(PubkeyHash(container.pubkey))
        /\ LeafSeq(result.script)[i] = PkLeaf(tweaked_pubkey, TRUE)
        /\ LeafSeq(result.script)[j] = PkhLeaf(PubkeyHash(tweaked_pubkey))

\* C9: structural preservation: a successful embed_commit returns a tree
\* with the operators, arities, leaf kinds and positions, timelocks and other
\* non-key parameters of the input script; leaves that do not match the
\* target key or its hash are unchanged.
C9_StructurePreserved ==
    Succeeded
        => /\ Shape(result.script) = Shape(container.script)
           /\ \A i \in 1..Len(LeafSeq(container.script)) :
                ~Matches(LeafSeq(container.script)[i], container.pubkey)
                    => LeafSeq(result.script)[i] = LeafSeq(container.script)[i]

C9_Witness ==
    /\ Succeeded
    /\ container.script.op \in Combinators
    /\ result.script # container.script
    /\ \E i \in 1..Len(LeafSeq(container.script)) :
        /\ LeafSeq(container.script)[i].op = "older"
        /\ LeafSeq(result.script)[i] = LeafSeq(container.script)[i]

\* C10: ordering: the tweak delegate is invoked only after validation has
\* passed, the rewrite only after the tweak; a call that fails validation has
\* invoked neither, returns no commitment, and takes no further step.
C10_Step ==
    /\ tweak_calls' > tweak_calls
        => /\ pc = "hashes_checked"
           /\ KeyPresent(keys, container.pubkey)
           /\ ~HashCheckFails(unknown)
           /\ rewrite_calls = 0
    /\ rewrite_calls' > rewrite_calls
        => /\ pc = "tweaked"
           /\ tweak_calls = 1
    /\ result'.err \in ValidationErrors
        => /\ pc' = "done"
           /\ tweak_calls' = 0
           /\ rewrite_calls' = 0
           /\ result'.script = NoScript
    /\ (Returned /\ result.err \in ValidationErrors)
        => (pc' = "done" \/ run' = run + 1)

C10_Ordering == [][C10_Step]_vars

C10_Witness ==
    /\ Returned
    /\ result.err = "LockscriptContainsUnknownHashes"
    /\ unknown = None
    /\ tweak_calls = 0
    /\ rewrite_calls = 0

\* C11: verify is replay-and-compare: when the replay of embed_commit on the
\* container and message succeeds, verify accepts a candidate exactly when it
\* is the commitment embed_commit returns, and rejects the unmodified
\* original script.
C11_ReplayAndCompare ==
    (verdict # "none" /\ \E r \in EmbedCommit(container, vmsg) : r.err = "Ok")
        => /\ verdict \in {"true", "false"}
           /\ (verdict = "true") <=>
                (\A r \in EmbedCommit(container, vmsg) : candidate = r.script)
           /\ vmsg = msg => ((verdict = "true") <=> (candidate = result.script))
           /\ candidate = container.script => verdict = "false"

C11_Witness ==
    /\ verdict = "false"
    /\ vmsg = msg
    /\ candidate = container.script
    /\ result.err = "Ok"
    /\ result.script # container.script

\* C12: for a script that is one key-hash leaf holding the hash of the target
\* key, embed_commit succeeds and returns the leaf with the hash of the
\* tweaked key, and verify accepts it.
C12_KnownHashCommits ==
    (/\ Returned
     /\ container.script = PkhLeaf(PubkeyHash(container.pubkey))
     /\ ~TweakFails(container.pubkey, ScriptKeys, container.tag, msg))
        => /\ result.err = "Ok"
           /\ result.script =
                PkhLeaf(PubkeyHash(Tweak(container.pubkey, ScriptKeys,
                                         container.tag, msg)))
           /\ \A r \in EmbedCommit(container, msg) :
                VerifyWith(result.script, r) = "true"

\* C13: for a script that is one key-hash leaf holding the hash of a key
\* other than the target key, embed_commit fails with
\* LockscriptContainsUnknownHashes.
C13_ForeignHashRejected ==
    (/\ Returned
     /\ \E k \in Keys \ {container.pubkey} :
            container.script = PkhLeaf(PubkeyHash(k)))
        => result.err = "LockscriptContainsUnknownHashes"

\* C20: key-not-found is checked before unknown-hashes: a non-empty key-leaf
\* set without the target key, together with a hash leaf that is the hash of
\* no key leaf, gives LockscriptKeyNotFound and not
\* LockscriptContainsUnknownHashes.
C20_KeyNotFoundFirst ==
    (/\ Returned
     /\ Parsed
     /\ ScriptKeys # {}
     /\ container.pubkey \notin ScriptKeys
     /\ ~(ScriptHashes \subseteq KeyHashes(ScriptKeys)))
        => /\ result.err = "LockscriptKeyNotFound"
           /\ unknown = None
           /\ pc = "done"

C20_Witness ==
    /\ Returned
    /\ ScriptKeys # {}
    /\ container.pubkey \notin ScriptKeys
    /\ DummyHashes \cap ScriptHashes # {}
    /\ result.err = "LockscriptKeyNotFound"

\* C14: encoding-agnostic identity: a key leaf holding the target key's point
\* in either encoding counts as the target key for membership and for the
\* rewrite, the key set holds each point once, and every hash (of the target
\* key, of the keys of the key set, of the tweaked key) is the hash of the
\* compressed serialization.
C14_EncodingAgnostic ==
    LET old == LeafSeq(container.script)
        new == LeafSeq(result.script)
        compressed_hashes == {Hash160(Serialize(k, TRUE)) : k \in keys}
    IN  /\ pc # "start"
            => keys = {old[i].val : i \in {j \in 1..Len(old) : old[j].op = "pk"}}
        /\ (Returned /\ \E i \in 1..Len(old) :
                old[i].op = "pk" /\ old[i].val = container.pubkey)
            => result.err # "LockscriptKeyNotFound"
        /\ unknown # None
            => unknown \in hashes /\ unknown \notin compressed_hashes
        /\ (Returned /\ result.err = "LockscriptContainsUnknownHashes")
            => hashes \subseteq compressed_hashes
        /\ Succeeded
            => \A i \in 1..Len(old) :
                /\ (old[i].op = "pk" /\ old[i].val = container.pubkey)
                    => new[i].val = tweaked_pubkey
                /\ (old[i].op = "pk_h"
                    /\ old[i].val = Hash160(Serialize(container.pubkey, TRUE)))
                    => new[i].val = Hash160(Serialize(tweaked_pubkey, TRUE))
                /\ (old[i].op = "pk_h"
                    /\ old[i].val = Hash160(Serialize(container.pubkey, FALSE)))
                    => new[i].val = old[i].val

C14_Witness ==
    /\ Succeeded
    /\ PkLeaf(container.pubkey, TRUE) \notin
            {LeafSeq(container.script)[i] :
                i \in 1..Len(LeafSeq(container.script))}
    /\ \E i, j, k \in 1..Len(LeafSeq(container.script)) :
        /\ LeafSeq(container.script)[i] = PkLeaf(container.pubkey, FALSE)
        /\ LeafSeq(result.script)[i].val = tweaked_pubkey
        /\ LeafSeq(container.script)[j] =
                PkhLeaf(Hash160(Serialize(container.pubkey, TRUE)))
        /\ LeafSeq(result.script)[j] =
                PkhLeaf(Hash160(Serialize(tweaked_pubkey, TRUE)))
        /\ LeafSeq(container.script)[k] =
                PkhLeaf(Hash160(Serialize(container.pubkey, FALSE)))
        /\ LeafSeq(result.script)[k] = LeafSeq(container.script)[k]
        /\ unknown = Hash160(Serialize(container.pubkey, FALSE))

\* C15: reconstruct fails with InvalidProofStructure exactly when the proof's
\* script_info is not the LockScript variant; otherwise it returns the
\* container made of the proof's script, the proof's public key and the
\* supplement as tag, whatever the host.
C15_Reconstruct ==
    wit.recon # NoRecon
        => /\ (wit.recon.err = "InvalidProofStructure")
                <=> (wit.given.script_info.kind # "LockScript")
           /\ wit.given.script_info.kind = "LockScript"
                => /\ wit.recon.err = "Ok"
                   /\ wit.recon.container.script = wit.given.script_info.script
                   /\ wit.recon.container.pubkey = wit.given.pubkey
                   /\ wit.recon.container.tag = wit.gsupp
           /\ \A h \in Hosts :
                reconstruct(wit.given, wit.gsupp, h) = wit.recon

C15_Witness ==
    /\ wit.given.script_info.kind = "Taproot"
    /\ wit.given.pubkey \in Keys
    /\ wit.host = "Some"
    /\ wit.recon.err = "InvalidProofStructure"
    /\ wit.recon.container = NoContainer

\* C16: in every interleaving of two concurrent embed_commit / verify calls,
\* each finished call has a result that the same call gives when run alone,
\* the `found` cell of a call holds the substitutions of that call only, and
\* a step of one call changes neither the other call nor the other call's cell.
C16_Alone ==
    \A i \in CallIds :
        LET call == calls[i] IN
        call.pc = "done"
            => /\ call.result \in EmbedCommit(call.container, call.msg)
               /\ call.kind = "verify"
                    => call.verdict = VerifyWith(call.candidate, call.result)
               /\ call.kind = "embed_commit" => call.verdict = "none"
               /\ cells[i] = IF call.result.err = "Ok"
                             THEN Found(call.container.script,
                                        call.container.pubkey)
                             ELSE NoCell

C16_Step ==
    \A i \in CallIds :
        calls'[i] # calls[i]
            => \A j \in CallIds \ {i} :
                    calls'[j] = calls[j] /\ cells'[j] = cells[j]

C16_ConcurrencySafety == []C16_Alone /\ [][C16_Step]_vars

C16_Witness ==
    /\ calls[1].pc = "done"
    /\ calls[1].kind = "verify"
    /\ calls[1].verdict = "true"
    /\ cells[1] = 2
    /\ calls[2].pc = "rewriting"
    /\ calls[2].container # calls[1].container
    /\ cells[2] = 0

\* C17: Node::contract_id gives, for a Genesis, Some of an id with the bytes of
\* the node's node_id, the same id as Genesis::contract_id; for an
\* Extension, Some of the contract id it was made with; for a Transition,
\* None.
C17_ContractId ==
    node.contract_id # NotAsked
        => /\ node.val.kind = "Genesis"
                => /\ node.contract_id.some
                   /\ node.contract_id.id.type = "ContractId"
                   /\ node.contract_id.id.inner = node_id(node.val).inner
                   /\ node.node_id # NoId
                        => node.contract_id.id.inner = node.node_id.inner
                   /\ node.genesis_contract_id # NoId
                        => node.contract_id.id = node.genesis_contract_id
           /\ node.val.kind = "Extension"
                => /\ node.contract_id.some
                   /\ node.contract_id.id.inner = <<node.val.contract_id>>
           /\ node.val.kind = "Transition"
                => ~node.contract_id.some

C17_Witness ==
    /\ node.val.kind = "Genesis"
    /\ node.node_id # NoId
    /\ node.genesis_contract_id # NoId
    /\ node.contract_id.some
    /\ node.contract_id.id.inner = node.node_id.inner

\* the bytes `sub` occur in `bytes` as one run
Contains(bytes, sub) ==
    \E i \in 1..(Len(bytes) - Len(sub) + 1) :
        SubSeq(bytes, i, i + Len(sub) - 1) = sub

\* C18: the commit encoding of a Genesis is the strict encodings of schema
\* id, the chain's genesis block hash, metadata, owned rights, public rights
\* and script, in this order; it holds no chain parameters, is the same for
\* every chain with that genesis block hash, and differs from the strict
\* encoding of the Genesis; the commit encoding of a Transition is its
\* strict encoding.
C18_CommitEncoding ==
    node.commit # NoBytes
        => /\ node.val.kind = "Genesis"
                => /\ node.commit =
                        EncodeHash(node.val.schema_id)
                            \o EncodeHash(node.val.chain.genesis_hash)
                            \o EncodeBytes(node.val.metadata)
                            \o EncodeBytes(node.val.owned_rights)
                            \o EncodeBytes(node.val.public_rights)
                            \o EncodeBytes(node.val.script)
                   /\ ~Contains(node.commit, EncodeChain(node.val.chain))
                   /\ \A c \in Chains :
                        c.genesis_hash = node.val.chain.genesis_hash
                            => CommitEncode([node.val EXCEPT !.chain = c])
                                    = node.commit
                   /\ node.strict # NoBytes => node.commit # node.strict
           /\ (node.val.kind = "Transition" /\ node.strict # NoBytes)
                => node.commit = node.strict

C18_Witness ==
    /\ node.val.kind = "Genesis"
    /\ node.val.chain.name = "Mainnet"
    /\ node.val.metadata # <<>>
    /\ node.commit # NoBytes
    /\ node.strict # NoBytes
    /\ node.commit # node.strict
    /\ Contains(node.strict, EncodeChain(node.val.chain))

\* C19: decoding the strict encoding of a Genesis gives the Genesis back; the
\* encoding holds the count 1 and one chain-parameter byte string; a stream
\* with a count below 1 is rejected with ValueOutOfRange; from a stream
\* with count n >= 1 and n byte strings the decoder takes the chain from the
\* first, skips the other n - 1 and reads the remaining fields.
C19_StrictRoundTrip ==
    /\ (node.val.kind = "Genesis" /\ node.strict # NoBytes)
        => /\ node.strict = GenesisStream(node.val, 1, 1)
           /\ DecodeUsize(DecodeHash(node.strict).rest).val = 1
           /\ DecodeBytes(DecodeUsize(DecodeHash(node.strict).rest).rest).val
                = EncodeChain(node.val.chain)
    /\ node.decoded # NotDecoded
        => /\ node.stream = node.strict => node.decoded = Decoded(node.val)
           /\ node.count < 1 => node.decoded = DecodeErr("ValueOutOfRange")
           /\ (node.count >= 1 /\ node.strings = node.count)
                => node.decoded = Decoded(node.val)

C19_Witness ==
    /\ node.count = 2
    /\ node.strings = 2
    /\ node.stream # NoBytes
    /\ node.stream # node.strict
    /\ node.val.chain.name = "Other"
    /\ node.val.script # <<>>
    /\ node.decoded = Decoded(node.val)

\* C21: frame of the rewrite: in a successful embed_commit every key leaf with
\* a key other than the target key and every hash leaf with a hash other than
\* the hash of the target key has in the commitment the value it has in the
\* input script, and no step of embed_commit changes the container.
C21_LeavesKept ==
    Succeeded
        => /\ Len(LeafSeq(result.script)) = Len(LeafSeq(container.script))
           /\ \A i \in 1..Len(LeafSeq(container.script)) :
                LET old == LeafSeq(container.script)[i]
                    new == LeafSeq(result.script)[i]
                IN  /\ (old.op = "pk" /\ old.val # container.pubkey)
                        => new.op = "pk" /\ new.val = old.val
                    /\ (old.op = "pk_h"
                            /\ old.val # PubkeyHash(container.pubkey))
                        => new.op = "pk_h" /\ new.val = old.val

C21_Frame == []C21_LeavesKept /\ [][container' = container]_vars

C21_Witness ==
    /\ Succeeded
    /\ \E i, j, k \in 1..Len(LeafSeq(container.script)) :
        /\ LeafSeq(container.script)[i].op = "pk"
        /\ LeafSeq(container.script)[i].val = container.pubkey
        /\ LeafSeq(result.script)[i].val = tweaked_pubkey
        /\ LeafSeq(container.script)[j].op = "pk"
        /\ LeafSeq(container.script)[j].val # container.pubkey
        /\ LeafSeq(result.script)[j] = LeafSeq(container.script)[j]
        /\ LeafSeq(container.script)[k].op = "pk_h"
        /\ LeafSeq(container.script)[k].val # PubkeyHash(container.pubkey)
        /\ LeafSeq(result.script)[k] = LeafSeq(container.script)[k]

\* C22: one embed_commit call invokes the tweak delegate at most once, with
\* the container's target key, the full set of key leaves of the script and
\* the container's tag, and with the caller's message; the key written into
\* the commitment is the key the delegate returned and the hash written is
\* the hash of that key.
C22_DelegateRequest ==
    /\ tweak_calls <= 1
    /\ request.sent <=> tweak_calls = 1
    /\ request.sent
        => /\ request.keyset_container.pubkey = container.pubkey
           /\ request.keyset_container.keyset = ScriptKeys
           /\ request.keyset_container.tag = container.tag
           /\ request.msg = msg
    /\ Succeeded
        => /\ request.sent
           /\ tweaked_pubkey = Tweak(container.pubkey, ScriptKeys,
                                     container.tag, msg)
           /\ ExtractKeys(result.script) \ ScriptKeys = {tweaked_pubkey}
           /\ ExtractHashes(result.script) \ ScriptHashes
                \subseteq {Hash160(Serialize(tweaked_pubkey, TRUE))}
           /\ PubkeyHash(container.pubkey) \in ScriptHashes
                => Hash160(Serialize(tweaked_pubkey, TRUE))
                        \in ExtractHashes(result.script)

C22_Witness ==
    /\ Succeeded
    /\ tweak_calls = 1
    /\ request.keyset_container.pubkey = container.pubkey
    /\ request.keyset_container.keyset = ScriptKeys
    /\ container.script.op \in Combinators
    /\ request.msg = NumMsgs
    /\ PubkeyHash(container.pubkey) \in ScriptHashes
    /\ tweaked_pubkey \in ExtractKeys(result.script)
    /\ PubkeyHash(tweaked_pubkey) \in ExtractHashes(result.script)

\* C23: when extraction, the tweak delegate or the rewrite fails, embed_commit
\* returns at once an error that carries that very failure, with no
\* commitment, and takes no later step: a failed extraction is followed by no
\* tweak and no rewrite, a failed tweak by no rewrite, a failed rewrite has
\* counted at most the matching leaves, and nothing follows the failure but
\* the caller's next call.
C23_Returned ==
    failure.stage # "none"
        => /\ pc = "done"
           /\ result.cause = failure.err
           /\ result.err = IF failure.stage = "tweak" THEN "TweakError"
                           ELSE "LockscriptParserError"
           /\ result.script = NoScript
           /\ verdict = "none"
           /\ failure.stage = "extract"
                => /\ failure.err \in LibraryFailures
                   /\ keys = {} /\ hashes = {}
                   /\ tweak_calls = 0 /\ rewrite_calls = 0 /\ ~request.sent
                   /\ found = 0
           /\ failure.stage = "tweak"
                => /\ failure.err \notin LibraryFailures
                   /\ tweak_calls = 1 /\ rewrite_calls = 0
                   /\ tweaked_pubkey = 0
                   /\ found = 0
           /\ failure.stage = "rewrite"
                => /\ failure.err \in LibraryFailures
                   /\ tweak_calls = 1 /\ rewrite_calls = 1
                   /\ tweaked_pubkey # 0
                   /\ found \in 0..Found(container.script, container.pubkey)

C23_NoLaterStep ==
    failure.stage # "none"
        => /\ pc' = "start"
           /\ failure' = NoFailure
           /\ prev' = result
           /\ run' = run + 1

C23_Passthrough == []C23_Returned /\ [][C23_NoLaterStep]_vars

\* the caller's third call fails in the rewrite after a leaf was replaced,
\* its earlier calls having failed in the extraction and in the tweak
C23_Witness ==
    /\ failure.stage = "rewrite"
    /\ failure.err = "PolicyError"
    /\ result = FromFailure(failure)
    /\ found >= 1
    /\ failed = {"extract", "tweak"}
    /\ prev.cause \in {ExtractFailure.err, TweakFailure.err}
    /\ run = OpaqueCalls

\* C24: witness round trip: deconstruct gives, for every container, the proof
\* made of the container's script and public key and the container's tag as
\* supplement; reconstruct on that proof and supplement returns, with any
\* host, a container equal to the one deconstructed; to_proof and into_proof
\* give the proof that deconstruct gives.
C24_RoundTrip ==
    /\ wit.proof # NoProof
        => /\ wit.supplement = wit.container.tag
           /\ wit.proof.pubkey = wit.container.pubkey
           /\ wit.proof.script_info.kind = "LockScript"
           /\ wit.proof.script_info.script = wit.container.script
           /\ \A h \in Hosts :
                reconstruct(wit.proof, wit.supplement, h)
                    = [err |-> "Ok", container |-> wit.container]
    /\ (wit.recon # NoRecon /\ wit.given = wit.proof
            /\ wit.gsupp = wit.supplement)
        => wit.recon.err = "Ok" /\ wit.recon.container = wit.container
    /\ (wit.tp # NoProof /\ wit.proof # NoProof) => wit.tp = wit.proof
    /\ (wit.ip # NoProof /\ wit.proof # NoProof) => wit.ip = wit.proof
    /\ (wit.tp # NoProof /\ wit.ip # NoProof) => wit.tp = wit.ip

C24_Witness ==
    /\ wit.container.tag = 2
    /\ wit.container.script.op \in Combinators
    /\ wit.proof # NoProof
    /\ wit.tp = wit.proof
    /\ wit.ip = wit.proof
    /\ wit.given = wit.proof
    /\ wit.gsupp = wit.supplement
    /\ wit.host = "Some"
    /\ wit.recon.err = "Ok"
    /\ wit.recon.container = wit.container

====
